---- MODULE Spec2Model ----
(***************************************************************************)
(* State-machine model of the MapleBond RAG chat backend:                  *)
(*   src/base/views.py                 startChat (POST /chat)              *)
(*   src/utils/azure_openai_manager.py AzureOpenAIManager                  *)
(*   src/utils/azure_mongodb_manager.py AzureMongoDBManager                *)
(*                                                                         *)
(* Text is a sequence of one-character strings.  The embedding service,    *)
(* the completion service and the document store are external: every call  *)
(* to them either returns or raises, chosen nondeterministically.          *)
(*                                                                         *)
(* Scaling.  max_tokens (4096 in the source) and batch_size (50 in the     *)
(* source) are scaled down so that both branches of every comparison with  *)
(* them are reached on short inputs; system_prompt and the separator are   *)
(* shortened to one word each, keeping their leading and trailing          *)
(* whitespace.                                                             *)
(***************************************************************************)
EXTENDS Integers, Sequences, FiniteSets, TLC

VARIABLES
    \* ---- startChat / rag_with_vector_search (one request in flight)
    request,            \* request.data.get('input') of the request being served
    user_input,         \* views.py:30, str(...) of it
    chat_pc,            \* position of the handler
    calls,              \* external calls issued for this request, in order
    results,            \* list(results) of vector_search
    assembled,          \* the system message as line 188 assembles it
    formatted_prompt,   \* the system message after the token-budget step
    raised,             \* exception raised inside rag_with_vector_search ("" = none)
    response,           \* the Response returned by startChat
    applied,            \* number of times the token-budget step has run on formatted_prompt
    \* ---- index administration
    index_exists,       \* whether VectorSearchIndex exists on the server
    admin,              \* the last create_vector_index / delete_vector_index call
    \* ---- the collection
    docs,               \* _id -> document, for the documents the collection holds
    docs0,              \* the collection when the backfill runs started
    shadow,             \* the collection as it is without any backfill run
    \* ---- add_collection_content_vector_field
    run                 \* run id -> locals of that run

vars == <<request, user_input, chat_pc, calls, results, assembled, formatted_prompt, raised,
          response, applied, index_exists, admin, docs, docs0, shadow, run>>

chatVars == <<request, user_input, chat_pc, calls, results, assembled, formatted_prompt, raised,
              response, applied>>
adminVars == <<index_exists, admin>>
storeVars == <<docs, docs0, shadow>>

----------------------------------------------------------------------------
\* Bounds of the model

MaxMsgLen == 7
MaxDocs == 5
MaxDocsShared == 3
MaxChatDocs == 2

\* Program constants (scaled, see the header)
max_tokens == 2
batch_size == 2
num_results == 1

----------------------------------------------------------------------------
\* Text

Min(a, b) == IF a < b THEN a ELSE b

\* str.isspace() on the characters the model uses
IsSpace(c) == c \in {" ", "\n"}

\* len(s.split()): the number of maximal runs of non-whitespace characters
WordCount(s) ==
    Cardinality({i \in 1..Len(s) : ~IsSpace(s[i]) /\ (i = 1 \/ IsSpace(s[i - 1]))})

\* s[:n]
Prefix(s, n) == SubSeq(s, 1, Min(n, Len(s)))

\* s.strip()
Strip(s) ==
    LET keep == {i \in 1..Len(s) : ~IsSpace(s[i])}
    IN  IF keep = {} THEN <<>>
        ELSE LET lo == CHOOSE i \in keep : \A j \in keep : i <= j
                 hi == CHOOSE i \in keep : \A j \in keep : j <= i
             IN  SubSeq(s, lo, hi)

\* A plausible slip: stripping before the length check instead of after it.
TokenBudgetStripFirst(prompt) ==
    LET s == Strip(prompt)
    IN  IF WordCount(s) > max_tokens THEN Prefix(s, max_tokens) ELSE s

\* azure_openai_manager.py:190-197
TokenBudget(prompt) ==
    LET prompt_tokens == WordCount(prompt)
        cut == IF prompt_tokens > max_tokens THEN Prefix(prompt, max_tokens) ELSE prompt
    IN  Strip(cut)

RECURSIVE SeqsUpTo(_, _)
SeqsUpTo(S, n) ==
    IF n = 0 THEN {<<>>}
    ELSE LET shorter == SeqsUpTo(S, n - 1)
         IN  shorter \cup {Append(s, c) : s \in {t \in shorter : Len(t) = n - 1}, c \in S}

Alphabet == {"a", " ", "\n"}


----------------------------------------------------------------------------
\* Documents

\* A field a document does not have (dict.get's default applies), or a
\* contentVector that was never set.
Absent == <<"<absent>">>

\* embed(text) -> vector: external and deterministic (spec section 6); the
\* vector is modelled by the text it was computed from.
Embed(text) == <<"v">> \o text

\* A vector some earlier ingestion left, computed from other content
Stale == <<"v", "?">>

Put(f, k, v) == [x \in (DOMAIN f) \cup {k} |-> IF x = k THEN v ELSE f[x]]
Remove(f, k) == [x \in (DOMAIN f) \ {k} |-> f[x]]

\* json.dumps string escaping of the characters the model uses
RECURSIVE Escape(_)
Escape(s) ==
    IF s = <<>> THEN <<>>
    ELSE (CASE Head(s) = "\n" -> <<"\\", "n">>
            [] Head(s) = "\"" -> <<"\\", "\"">>
            [] Head(s) = "\\" -> <<"\\", "\\">>
            [] OTHER -> <<Head(s)>>) \o Escape(Tail(s))

\* json.dumps of a str
JsonString(s) == <<"\"">> \o Escape(s) \o <<"\"">>

\* dict.get(key, "")
Get(d, key) ==
    LET v == IF key = "title" THEN d.title ELSE d.desc
    IN  IF v = Absent THEN <<>> ELSE v

----------------------------------------------------------------------------
\* startChat and rag_with_vector_search

NoRequest == [t |-> "norequest", v |-> <<>>]

\* request.data.get('input'): the key missing (None), or a string
Inputs ==
    {[t |-> "none", v |-> <<>>], [t |-> "str", v |-> <<>>],
     [t |-> "str", v |-> <<"q">>], [t |-> "str", v |-> <<" ">>]}

\* views.py:30  str(x): str(None) is the four characters None
Str(x) == IF x.t = "none" THEN <<"N", "o", "n", "e">> ELSE x.v

NoResponse == [status |-> 0, error |-> "", data |-> ""]

BadRequest == [status |-> 400, error |-> "No input provided", data |-> ""]

\* A plausible slip: the handler reports the failure with a success status.
ErrorResponseAs200(e) == [status |-> 200, error |-> e, data |-> ""]

\* views.py:40-42
ErrorResponse(e) == [status |-> 500, error |-> e, data |-> ""]

OkResponse(text) == [status |-> 200, error |-> "", data |-> text]

\* azure_openai_manager.py:167-172 (scaled: one word between whitespace)
system_prompt == <<"\n", "P", "\n">>

\* "System-generated context based on user query:\n" (scaled to one word)
separator == <<"S", "\n">>

\* json.dumps({"title": ..., "desc": ...}, indent=4, default=str)
JsonBlock(result) ==
    <<"{", "\n", " ", " ", " ", " ", "\"", "t", "i", "t", "l", "e", "\"", ":", " ">>
    \o JsonString(Get(result.document, "title"))
    \o <<",", "\n", " ", " ", " ", " ", "\"", "d", "e", "s", "c", "\"", ":", " ">>
    \o JsonString(Get(result.document, "desc"))
    \o <<"\n", "}">>

\* "\n".join(... for result in results)
RECURSIVE JoinBlocks(_)
JoinBlocks(rs) ==
    IF rs = <<>> THEN <<>>
    ELSE IF Len(rs) = 1 THEN JsonBlock(rs[1])
    ELSE JsonBlock(rs[1]) \o <<"\n">> \o JoinBlocks(Tail(rs))

\* azure_openai_manager.py:188
AssemblePrompt(rs) == system_prompt \o separator \o JoinBlocks(rs)

\* azure_openai_manager.py:175-178: result['document']['title'] and ['desc']
\* raise KeyError on a document without the key; str(KeyError(k)) is 'k'.
LogResultsError(rs) ==
    IF \E i \in 1..Len(rs) :
          /\ \A j \in 1..(i - 1) : rs[j].document.title # Absent /\ rs[j].document.desc # Absent
          /\ rs[i].document.title = Absent
    THEN "'title'"
    ELSE IF \E i \in 1..Len(rs) : rs[i].document.desc = Absent THEN "'desc'"
    ELSE ""

\* What the $search stage may return: at most k distinct documents that have
\* a contentVector, in the order the store ranks them (external).
SearchOutcomes(k) ==
    LET cand == {i \in DOMAIN docs : docs[i].contentVector # Absent}
        seqs == {s \in SeqsUpTo(cand, Min(k, Cardinality(cand))) :
                    \A i, j \in 1..Len(s) : i # j => s[i] # s[j]}
    IN  {[i \in 1..Len(s) |-> [id |-> s[i], document |-> docs[s[i]]]] : s \in seqs}

EmbedFailures == {"embedding service error"}
SearchFailures == {"search error"}
CompleteFailures == {"Request timed out.", "completion service error"}

Call(name, result) == [call |-> name, result |-> result]

\* views.py:29-35
StartChat ==
    /\ chat_pc \in {"idle", "responded"}
    /\ \E input \in Inputs :
          /\ request' = input
          /\ user_input' = Str(input)
          /\ IF user_input' = <<>>
             THEN /\ response' = BadRequest
                  /\ chat_pc' = "responded"
             ELSE /\ response' = NoResponse
                  /\ chat_pc' = "embed"
    /\ calls' = <<>>
    /\ results' = <<>>
    /\ assembled' = <<>>
    /\ formatted_prompt' = <<>>
    /\ raised' = ""
    /\ applied' = 0
    /\ UNCHANGED <<adminVars, storeVars, run>>

\* A plausible slip: a failed completion call is issued again.
CompleteGuardRetry ==
    \/ chat_pc = "complete"
    \/ /\ chat_pc = "responded"
       /\ Len(calls) = 3
       /\ calls[3].result # "ok"

CompleteGuard == chat_pc = "complete"

\* vector_search, azure_openai_manager.py:144 -> generate_embeddings:60
EmbedQuery ==
    /\ chat_pc = "embed"
    /\ \E out \in {"ok"} \cup EmbedFailures :
          /\ calls' = Append(calls, Call("embed", out))
          /\ IF out = "ok"
             THEN /\ chat_pc' = "search"
                  /\ UNCHANGED <<raised, response>>
             ELSE /\ raised' = out
                  /\ response' = ErrorResponse(out)
                  /\ chat_pc' = "responded"
    /\ UNCHANGED <<request, user_input, results, assembled, formatted_prompt, applied,
                   adminVars, storeVars, run>>

\* vector_search:156-157, then rag_with_vector_search:175-197
SearchAndAssemble ==
    /\ chat_pc = "search"
    /\ \/ \E rs \in SearchOutcomes(num_results) :
             /\ calls' = Append(calls, Call("search", "ok"))
             /\ results' = rs
             /\ IF LogResultsError(rs) # ""
                THEN /\ raised' = LogResultsError(rs)
                     /\ response' = ErrorResponse(LogResultsError(rs))
                     /\ chat_pc' = "responded"
                     /\ UNCHANGED <<assembled, formatted_prompt, applied>>
                ELSE /\ assembled' = AssemblePrompt(rs)
                     /\ formatted_prompt' = TokenBudget(assembled')
                     /\ applied' = 1
                     /\ chat_pc' = "complete"
                     /\ UNCHANGED <<raised, response>>
       \/ \E out \in SearchFailures :
             /\ calls' = Append(calls, Call("search", out))
             /\ raised' = out
             /\ response' = ErrorResponse(out)
             /\ chat_pc' = "responded"
             /\ UNCHANGED <<results, assembled, formatted_prompt, applied>>
    /\ UNCHANGED <<request, user_input, adminVars, storeVars, run>>

\* rag_with_vector_search:207-208, then views.py:44
Complete ==
    /\ CompleteGuard
    /\ \E out \in {"ok"} \cup CompleteFailures :
          /\ calls' = Append(calls, Call("complete", out))
          /\ IF out = "ok"
             THEN /\ response' = OkResponse("answer")
                  /\ UNCHANGED raised
             ELSE /\ raised' = out
                  /\ response' = ErrorResponse(out)
    /\ chat_pc' = "responded"
    /\ UNCHANGED <<request, user_input, results, assembled, formatted_prompt, applied,
                   adminVars, storeVars, run>>

----------------------------------------------------------------------------
\* Index administration

NoAdmin == [op |-> "", existed |-> FALSE, server |-> "", commands |-> 0,
            raised |-> "", logged |-> ""]

\* A plausible slip: no try/except around the server command.
AdminCallUncaught(op, existed, server) ==
    [op |-> op, existed |-> existed, server |-> server, commands |-> 1,
     raised |-> IF server = "ok" THEN "" ELSE server, logged |-> ""]

\* azure_openai_manager.py:118-122 and 130-134: one command; whatever it
\* raises is caught and handed to logger.error, nothing is re-raised.
AdminCall(op, existed, server) ==
    [op |-> op, existed |-> existed, server |-> server, commands |-> 1,
     raised |-> "", logged |-> IF server = "ok" THEN "" ELSE server]

\* create_vector_index: the server refuses an index that exists (spec 4.2)
create_vector_index ==
    /\ \E server \in (IF index_exists THEN {"AlreadyExists"} ELSE {"ok"}) \cup {"Unavailable"} :
          /\ admin' = AdminCall("create", index_exists, server)
          /\ index_exists' = (index_exists \/ server = "ok")
    /\ UNCHANGED <<chatVars, storeVars, run>>

\* delete_vector_index: drop_index of an absent index fails
delete_vector_index ==
    /\ \E server \in (IF index_exists THEN {"ok"} ELSE {"NotFound"}) \cup {"Unavailable"} :
          /\ admin' = AdminCall("delete", index_exists, server)
          /\ index_exists' = (index_exists /\ server # "ok")
    /\ UNCHANGED <<chatVars, storeVars, run>>

----------------------------------------------------------------------------
\* The collection at start

\* Documents as ingestion may have left them (with or without a vector)
DocKinds ==
    {[title |-> t, desc |-> d, contentVector |-> c] :
        t \in {<<"a">>, Absent}, d \in {<<"a", " ", "b">>, Absent}, c \in {Absent, Stale}}

Collections(n, Kinds) == UNION {[1..k -> Kinds] : k \in 0..n}

\* The function with no argument: no document, no run
NoRuns == [r \in {} |-> 0]

\* The web process: chat requests and index administration
Init ==
    /\ request = NoRequest
    /\ user_input = <<>>
    /\ chat_pc = "idle"
    /\ calls = <<>>
    /\ results = <<>>
    /\ assembled = <<>>
    /\ formatted_prompt = <<>>
    /\ raised = ""
    /\ response = NoResponse
    /\ applied = 0
    /\ index_exists \in BOOLEAN
    /\ admin = NoAdmin
    /\ docs \in Collections(MaxChatDocs, DocKinds)
    /\ docs0 = docs
    /\ shadow = docs
    /\ run = NoRuns

Next ==
    \/ StartChat
    \/ EmbedQuery
    \/ SearchAndAssemble
    \/ Complete
    \/ create_vector_index
    \/ delete_vector_index

Spec == Init /\ [][Next]_vars


----------------------------------------------------------------------------
\* The token-budget step on its own, over every short message

ApplyTokenBudget ==
    /\ chat_pc = "budget"
    /\ applied < 2
    /\ formatted_prompt' = TokenBudget(formatted_prompt)
    /\ applied' = applied + 1
    /\ UNCHANGED <<request, user_input, chat_pc, calls, results, assembled, raised,
                   response, adminVars, storeVars, run>>

InitBudget ==
    /\ request = NoRequest
    /\ user_input = <<>>
    /\ chat_pc = "budget"
    /\ calls = <<>>
    /\ results = <<>>
    /\ assembled \in SeqsUpTo(Alphabet, MaxMsgLen)
    /\ formatted_prompt = assembled
    /\ raised = ""
    /\ response = NoResponse
    /\ applied = 0
    /\ index_exists = FALSE
    /\ admin = NoAdmin
    /\ docs = NoRuns
    /\ docs0 = docs
    /\ shadow = docs
    /\ run = NoRuns

NextBudget == ApplyTokenBudget

SpecBudget == InitBudget /\ [][NextBudget]_vars

----------------------------------------------------------------------------
\* add_collection_content_vector_field

Fields == {"title", "desc"}

NoSnapshot == [id |-> 0, document |-> [title |-> Absent, desc |-> Absent, contentVector |-> Absent]]

\* The locals of one call add_collection_content_vector_field(field)
NewRun(field) ==
    [pc |-> "idle", field |-> field, cursor_open |-> FALSE,
     last |-> 0,                 \* _id of the last document the cursor fetched
     buf |-> <<>>,               \* documents fetched and not yet yielded
     doc |-> NoSnapshot,         \* the loop variable
     bulk_operations |-> <<>>, count |-> 0,
     yielded |-> <<>>,           \* _ids the cursor yielded, in order
     writes |-> <<>>,            \* _ids of each bulk_write that returned
     failed_batch |-> <<>>,      \* _ids of the bulk_write that raised
     error |-> ""]               \* what logger.error was given

RECURSIVE Flatten(_)
Flatten(ss) == IF ss = <<>> THEN <<>> ELSE Head(ss) \o Flatten(Tail(ss))

OpIds(ops) == [i \in 1..Len(ops) |-> ops[i].id]

\* A plausible slip: the raw field is embedded, not its json.dumps.
ContentVectorRaw(document, field) == Embed(Get(document, field))

\* azure_openai_manager.py:73-74
ContentVector(document, field) == Embed(JsonString(Get(document, field)))

\* A plausible slip: $push onto the stored vector instead of $set.
PushVector(old, new) == IF old = Absent THEN new ELSE old \o new

\* {"$set": {"contentVector": content_vector}}
SetVector(old, new) == new

\* UpdateOne({"_id": id}, {"$set": ...}, upsert=True) on the collection
ApplyOp(store, op) ==
    IF op.id \in DOMAIN store
    THEN [store EXCEPT ![op.id].contentVector = SetVector(@, op.vector)]
    ELSE Put(store, op.id, [title |-> Absent, desc |-> Absent, contentVector |-> op.vector])

RECURSIVE ApplyOps(_, _)
ApplyOps(store, ops) ==
    IF ops = <<>> THEN store ELSE ApplyOps(ApplyOp(store, Head(ops)), Tail(ops))

\* A plausible slip: > for >=.
FlushDueOffByOne(ops) == Len(ops) > batch_size

\* azure_openai_manager.py:83
FlushDue(ops) == Len(ops) >= batch_size

\* A plausible slip: the try/except inside the loop, so that the loop goes on.
AbortContinue(rr, err, batch) ==
    [rr EXCEPT !.pc = IF rr.pc = "final" THEN "done" ELSE "iter",
               !.cursor_open = (rr.pc # "final"),
               !.bulk_operations = <<>>,
               !.error = err, !.failed_batch = batch]

\* azure_openai_manager.py:92-97: the except clauses are outside the for
\* loop; both log, neither re-raises; finally closes the cursor.
Abort(rr, err, batch) ==
    [rr EXCEPT !.pc = "done", !.cursor_open = FALSE, !.error = err, !.failed_batch = batch]

\* The documents a getMore returns: the next batch_size documents in _id
\* order after the last one fetched, as they are at that moment.
FetchIds(last) ==
    LET rest == {i \in DOMAIN docs : i > last}
    IN  {i \in rest : Cardinality({j \in rest : j < i}) < batch_size}

RECURSIVE Ascending(_)
Ascending(S) ==
    IF S = {} THEN <<>>
    ELSE LET m == CHOOSE i \in S : \A j \in S : i <= j
         IN  <<m>> \o Ascending(S \ {m})

Snapshots(ids) == [i \in 1..Len(ids) |-> [id |-> ids[i], document |-> docs[ids[i]]]]

\* line 69-70: the session and the cursor (find() sends nothing yet)
StartRun(r) ==
    /\ run[r].pc = "idle"
    /\ run' = [run EXCEPT ![r].pc = "iter", ![r].cursor_open = TRUE]
    /\ UNCHANGED <<chatVars, adminVars, storeVars>>

\* line 72: next(cursor)
CursorNext(r) ==
    /\ run[r].pc = "iter"
    /\ IF run[r].buf # <<>>
       THEN run' = [run EXCEPT ![r].doc = Head(run[r].buf),
                               ![r].buf = Tail(run[r].buf),
                               ![r].yielded = Append(@, Head(run[r].buf).id),
                               ![r].pc = "embed"]
       ELSE \/ LET got == Snapshots(Ascending(FetchIds(run[r].last)))
               IN  IF got = <<>>
                   THEN run' = [run EXCEPT ![r].pc = "final"]
                   ELSE run' = [run EXCEPT ![r].doc = Head(got),
                                           ![r].buf = Tail(got),
                                           ![r].last = got[Len(got)].id,
                                           ![r].yielded = Append(@, Head(got).id),
                                           ![r].pc = "embed"]
            \/ run' = [run EXCEPT ![r] = Abort(@, "cursor error", <<>>)]
    /\ UNCHANGED <<chatVars, adminVars, storeVars>>

\* lines 73-83
EmbedDoc(r) ==
    /\ run[r].pc = "embed"
    /\ \/ LET op == [id |-> run[r].doc.id,
                     vector |-> ContentVector(run[r].doc.document, run[r].field)]
              ops == Append(run[r].bulk_operations, op)
          IN  run' = [run EXCEPT ![r].bulk_operations = ops,
                                 ![r].count = @ + 1,
                                 ![r].pc = IF FlushDue(ops) THEN "flush" ELSE "iter"]
       \/ run' = [run EXCEPT ![r] = Abort(@, "embedding service error", <<>>)]
    /\ UNCHANGED <<chatVars, adminVars, storeVars>>

\* collection.bulk_write(bulk_operations), ordered: it returns, or it raises
\* BulkWriteError at one operation with those before it applied, or the
\* connection fails with any number of the operations applied.
BulkWriteOutcome(r, next_pc, reset) ==
    LET ops == run[r].bulk_operations
    IN  \/ /\ docs' = ApplyOps(docs, ops)
           /\ run' = [run EXCEPT ![r].writes = Append(@, OpIds(ops)),
                                 ![r].bulk_operations = IF reset THEN <<>> ELSE ops,
                                 ![r].cursor_open = (next_pc # "done"),
                                 ![r].pc = next_pc]
        \/ \E k \in 0..(Len(ops) - 1) :
              /\ docs' = ApplyOps(docs, SubSeq(ops, 1, k))
              /\ run' = [run EXCEPT ![r] = Abort(@, "BulkWriteError", OpIds(ops))]
        \/ \E k \in 0..Len(ops) :
              /\ docs' = ApplyOps(docs, SubSeq(ops, 1, k))
              /\ run' = [run EXCEPT ![r] = Abort(@, "connection error", OpIds(ops))]

\* lines 84-86
BulkWrite(r) ==
    /\ run[r].pc = "flush"
    /\ BulkWriteOutcome(r, "iter", TRUE)
    /\ UNCHANGED <<chatVars, adminVars, docs0, shadow>>

\* lines 88-90, then finally: cursor.close()
FinalFlush(r) ==
    /\ run[r].pc = "final"
    /\ IF run[r].bulk_operations # <<>>
       THEN BulkWriteOutcome(r, "done", FALSE)
       ELSE /\ run' = [run EXCEPT ![r].pc = "done", ![r].cursor_open = FALSE]
            /\ UNCHANGED docs
    /\ UNCHANGED <<chatVars, adminVars, docs0, shadow>>

\* The collections the backfill is run on
BackfillKinds ==
    {[title |-> <<"a">>, desc |-> <<"a", " ", "b">>, contentVector |-> Absent],
     [title |-> <<"a">>, desc |-> Absent, contentVector |-> Stale],
     [title |-> Absent, desc |-> <<"a", " ", "b">>, contentVector |-> Stale]}

InitRuns(n, maxdocs) ==
    /\ request = NoRequest
    /\ user_input = <<>>
    /\ chat_pc = "idle"
    /\ calls = <<>>
    /\ results = <<>>
    /\ assembled = <<>>
    /\ formatted_prompt = <<>>
    /\ raised = ""
    /\ response = NoResponse
    /\ applied = 0
    /\ index_exists = FALSE
    /\ admin = NoAdmin
    /\ docs \in Collections(maxdocs, BackfillKinds)
    /\ docs0 = docs
    /\ shadow = docs
    /\ \E field \in Fields : run = [r \in 1..n |-> NewRun(field)]

\* One run, alone on the collection
InitBackfill == InitRuns(1, MaxDocs)

NextBackfill ==
    \/ StartRun(1)
    \/ CursorNext(1)
    \/ EmbedDoc(1)
    \/ BulkWrite(1)
    \/ FinalFlush(1)

SpecBackfill == InitBackfill /\ [][NextBackfill]_vars

\* Two runs over the same field, uncoordinated
InitConcurrent == InitRuns(2, MaxDocsShared)

NextConcurrent ==
    \E r \in 1..2 :
        \/ StartRun(r)
        \/ CursorNext(r)
        \/ EmbedDoc(r)
        \/ BulkWrite(r)
        \/ FinalFlush(r)

SpecConcurrent == InitConcurrent /\ [][NextConcurrent]_vars


----------------------------------------------------------------------------
\* One run while other clients of the collection insert and delete

InsertKinds ==
    {[title |-> <<"a">>, desc |-> <<"a", " ", "b">>, contentVector |-> Absent]}

\* AzureMongoDBManager.insert_document (a duplicate _id is refused)
insert_document ==
    /\ \E id \in 1..MaxDocsShared, d \in InsertKinds :
          /\ id \notin DOMAIN docs \/ id \notin DOMAIN shadow
          /\ docs' = IF id \in DOMAIN docs THEN docs ELSE Put(docs, id, d)
          /\ shadow' = IF id \in DOMAIN shadow THEN shadow ELSE Put(shadow, id, d)
    /\ UNCHANGED <<chatVars, adminVars, docs0, run>>

\* AzureMongoDBManager.delete_document({"_id": id})
delete_document ==
    /\ \E id \in (DOMAIN docs) \cup (DOMAIN shadow) :
          /\ docs' = IF id \in DOMAIN docs THEN Remove(docs, id) ELSE docs
          /\ shadow' = IF id \in DOMAIN shadow THEN Remove(shadow, id) ELSE shadow
    /\ UNCHANGED <<chatVars, adminVars, docs0, run>>

InitClients == InitRuns(1, MaxDocsShared)

NextClients ==
    \/ StartRun(1)
    \/ CursorNext(1)
    \/ EmbedDoc(1)
    \/ BulkWrite(1)
    \/ FinalFlush(1)
    \/ insert_document
    \/ delete_document

SpecClients == InitClients /\ [][NextClients]_vars


----------------------------------------------------------------------------
\* Properties

EmptyOrMissing(x) == x.t = "none" \/ (x.t = "str" /\ x.v = <<>>)

\* C1 (as the specification states it): a POST /chat request whose 'input'
\* is empty or missing is answered 400 {"error": "No input provided"} and
\* no call to the embedding service, the search or the completion service
\* is made for it.
C1_EmptyOrMissingIsRejected ==
    EmptyOrMissing(request) =>
        /\ chat_pc = "responded"
        /\ response.status = 400
        /\ response.error = "No input provided"
        /\ calls = <<>>

\* C2: for a non-empty question, a failed embedding, search or completion
\* call is answered 500 with the message of that failure, it is the last
\* call issued and no call is issued twice; and 200 is answered only after
\* the three calls, each of which succeeded.
C2_FailureIs500 ==
    (chat_pc = "responded" /\ user_input # <<>>) =>
        /\ \A i \in 1..Len(calls) :
              calls[i].result # "ok" =>
                  /\ response.status = 500
                  /\ response.error = calls[i].result
                  /\ i = Len(calls)
        /\ \A i, j \in 1..Len(calls) : calls[i].call = calls[j].call => i = j
        /\ response.status = 200 =>
              /\ Len(calls) = 3
              /\ \A i \in 1..3 : calls[i].result = "ok"
        /\ response.status \in {200, 500}

C2_Witness ==
    /\ chat_pc = "responded"
    /\ Len(calls) = 3
    /\ calls[3].result = "Request timed out."
    /\ response.status = 500

InWrites(rr, id) ==
    \E i \in 1..Len(rr.writes) : \E j \in 1..Len(rr.writes[i]) : rr.writes[i][j] = id

InSeq(q, x) == \E i \in 1..Len(q) : q[i] = x

\* C4 (as the specification states it): a failed bulk write does not abort
\* the cursor iteration; every document of the collection after the failed
\* batch is still yielded, embedded and part of a later bulk write.
C4_IterationContinues ==
    (run[1].error = "BulkWriteError" /\ run[1].pc = "done") =>
        \A id \in DOMAIN docs0 :
            /\ InSeq(run[1].yielded, id)
            /\ InSeq(run[1].failed_batch, id) \/ InWrites(run[1], id)

\* C4 (amended): a failed bulk write (a BulkWriteError or any other error
\* of the call) ends the run: the error is handed to logger.error, the
\* cursor is closed, and nothing was yielded, embedded or written after the
\* failed batch.
C4_FailureEndsRun ==
    run[1].failed_batch # <<>> =>
        /\ run[1].pc = "done"
        /\ run[1].error \in {"BulkWriteError", "connection error"}
        /\ ~run[1].cursor_open
        /\ run[1].yielded = Flatten(run[1].writes) \o run[1].failed_batch
        /\ run[1].count = Len(run[1].yielded)

C4_Witness ==
    /\ run[1].error = "BulkWriteError"
    /\ Len(run[1].writes) = 1
    /\ \E id \in DOMAIN docs0 : ~InSeq(run[1].yielded, id)

\* The embedding of the serialized designated field of document id
Accurate(id, field) ==
    docs[id].contentVector = Embed(JsonString(Get(docs[id], field)))

\* C5: at every point of a run, also after an error ended it, each document's
\* contentVector is the one it had before the run or the embedding of its
\* serialized designated field; every document of a bulk write that returned
\* has the latter.
C5_VectorsOldOrAccurate ==
    /\ \A id \in DOMAIN docs :
          /\ id \in DOMAIN docs0
          /\ \/ docs[id].contentVector = docs0[id].contentVector
             \/ Accurate(id, run[1].field)
    /\ \A id \in DOMAIN docs : InWrites(run[1], id) => Accurate(id, run[1].field)

C5_Witness ==
    /\ run[1].pc = "done"
    /\ run[1].error # ""
    /\ Len(run[1].writes) >= 1
    /\ \E id \in DOMAIN docs :
          /\ InSeq(run[1].failed_batch, id)
          /\ Accurate(id, run[1].field)
          /\ docs[id].contentVector # docs0[id].contentVector
    /\ \E id \in DOMAIN docs :
          /\ ~Accurate(id, run[1].field)
          /\ docs[id].contentVector = Stale

\* C6 (as the specification states it): the collection holds the documents
\* it would hold without the run, with their other fields as they would be,
\* also while other clients insert and delete.
C6_OnlyContentVectorChanges ==
    /\ DOMAIN docs = DOMAIN shadow
    /\ \A id \in (DOMAIN docs) \cap (DOMAIN shadow) :
          /\ docs[id].title = shadow[id].title
          /\ docs[id].desc = shadow[id].desc

\* C7: the token-budget step applied to its own output returns it unchanged.
C7_TokenBudgetIdempotent ==
    applied >= 1 => TokenBudget(formatted_prompt) = formatted_prompt

C7_Witness ==
    /\ applied = 2
    /\ WordCount(assembled) > max_tokens
    /\ Len(formatted_prompt) < max_tokens
    /\ formatted_prompt # <<>>

\* C8: in a run in which no call fails, the bulk writes are the yielded
\* documents in cursor order, each in exactly one write; no write is empty
\* or larger than batch_size; every write but the one after the cursor is
\* exhausted has batch_size operations; when the run has ended every
\* document of the collection was yielded and every operation was flushed.
C8_Batches ==
    run[1].error = "" =>
        LET rr == run[1]
            flushed == Flatten(rr.writes)
        IN  /\ Len(flushed) <= Len(rr.yielded)
            /\ flushed = SubSeq(rr.yielded, 1, Len(flushed))
            /\ \A i, j \in 1..Len(rr.yielded) : rr.yielded[i] = rr.yielded[j] => i = j
            /\ \A i \in 1..Len(rr.writes) :
                  /\ Len(rr.writes[i]) >= 1
                  /\ Len(rr.writes[i]) <= batch_size
                  /\ (i < Len(rr.writes) \/ rr.pc # "done") =>
                        Len(rr.writes[i]) = batch_size
            /\ rr.pc = "done" =>
                  /\ rr.yielded = Ascending(DOMAIN docs0)
                  /\ flushed = rr.yielded
                  /\ rr.count = Len(flushed)

C8_Witness ==
    /\ run[1].pc = "done"
    /\ run[1].error = ""
    /\ Len(run[1].writes) = 3
    /\ Len(run[1].writes[3]) = 1

\* C9: with two uncoordinated runs over the same field, every contentVector
\* is at every moment the one from before the runs or the embedding of the
\* document's serialized source field, and once both runs have ended without
\* error every document has the latter.
C9_ConcurrentRunsDoNotCorrupt ==
    /\ run[1].field = run[2].field
    /\ \A id \in DOMAIN docs :
          /\ id \in DOMAIN docs0
          /\ \/ docs[id].contentVector = docs0[id].contentVector
             \/ Accurate(id, run[1].field)
    /\ (\A r \in 1..2 : run[r].pc = "done" /\ run[r].error = "") =>
          /\ DOMAIN docs = DOMAIN docs0
          /\ \A id \in DOMAIN docs : Accurate(id, run[1].field)

C9_Witness ==
    /\ \A r \in 1..2 : run[r].pc = "done" /\ run[r].error = "" /\ Len(run[r].writes) = 2
    /\ \E id \in DOMAIN docs0 : docs0[id].contentVector = Stale /\ ~(docs[id].contentVector = Stale)

\* C10: the calls of one answer generation are a prefix of embed, search,
\* complete: each is issued once, and only after the one before it returned
\* successfully; the collection is not written.
C10_EmbedSearchComplete ==
    /\ Len(calls) <= 3
    /\ \A i \in 1..Len(calls) :
          /\ calls[i].call = <<"embed", "search", "complete">>[i]
          /\ i < Len(calls) => calls[i].result = "ok"
    /\ docs = docs0

C10_Witness ==
    /\ Len(calls) = 3
    /\ response.status = 200
    /\ results # <<>>

====
